---- MODULE Spec2Model ----
(***************************************************************************)
(* Model of the transcoding plugins of peertube-plugin-av1-advanced:       *)
(*   main   src/src/main.ts            SVT-AV1, bitrate and CRF tables     *)
(*   p000   src/unnamed/part_000       SVT-AV1, CRF and preset tables      *)
(*   p001a  src/unnamed/part_001:1-277 SVT-AV1, CRF table                  *)
(*   p001b  src/unnamed/part_001:278-  SVT-AV1, bitrate table              *)
(*   vaapi  src/unnamed/part_002       h264_vaapi, hard-coded bitrates     *)
(* JavaScript numbers are IEEE-754 doubles; the arithmetic of              *)
(* getTargetBitrate is modelled with correctly rounded binary64            *)
(* operations on multi-limb naturals.                                      *)
(***************************************************************************)
EXTENDS Integers, Sequences, FiniteSets, TLC

(***************************************************************************)
(* Multi-limb naturals: little-endian sequences of limbs in base 2^15,     *)
(* without leading (high) zero limbs; << >> is zero.                       *)
(***************************************************************************)
LimbBase == 32768
LimbBits == 15

RECURSIVE BNNorm(_)
BNNorm(a) ==
  IF a = << >> THEN << >>
  ELSE IF a[Len(a)] = 0 THEN BNNorm(SubSeq(a, 1, Len(a) - 1)) ELSE a

RECURSIVE BNFromInt(_)
BNFromInt(n) ==
  IF n = 0 THEN << >> ELSE <<n % LimbBase>> \o BNFromInt(n \div LimbBase)

RECURSIVE BNToInt(_)
BNToInt(a) ==
  IF a = << >> THEN 0 ELSE a[1] + LimbBase * BNToInt(Tail(a))

BNLimb(a, i) == IF i <= Len(a) THEN a[i] ELSE 0

BNMax(x, y) == IF x >= y THEN x ELSE y

RECURSIVE BNAddC(_, _, _, _)
BNAddC(a, b, i, c) ==
  IF i > BNMax(Len(a), Len(b))
  THEN (IF c = 0 THEN << >> ELSE <<c>>)
  ELSE LET t == BNLimb(a, i) + BNLimb(b, i) + c
       IN  <<t % LimbBase>> \o BNAddC(a, b, i + 1, t \div LimbBase)

BNAdd(a, b) == BNAddC(a, b, 1, 0)

\* a - b for a >= b
RECURSIVE BNSubC(_, _, _, _)
BNSubC(a, b, i, c) ==
  IF i > Len(a) THEN << >>
  ELSE LET t == a[i] - BNLimb(b, i) - c
       IN  IF t < 0 THEN <<t + LimbBase>> \o BNSubC(a, b, i + 1, 1)
                    ELSE <<t>> \o BNSubC(a, b, i + 1, 0)

BNSub(a, b) == BNNorm(BNSubC(a, b, 1, 0))

\* -1, 0, 1 as a < b, a = b, a > b
RECURSIVE BNCmpAt(_, _, _)
BNCmpAt(a, b, i) ==
  IF i = 0 THEN 0
  ELSE IF a[i] < b[i] THEN -1
  ELSE IF a[i] > b[i] THEN 1
  ELSE BNCmpAt(a, b, i - 1)

BNCmp(a, b) ==
  IF Len(a) < Len(b) THEN -1
  ELSE IF Len(a) > Len(b) THEN 1
  ELSE BNCmpAt(a, b, Len(a))

\* a * k for 0 <= k < 2^15
RECURSIVE BNMulSmallC(_, _, _, _)
BNMulSmallC(a, k, i, c) ==
  IF i > Len(a)
  THEN (IF c = 0 THEN << >> ELSE <<c>>)
  ELSE LET t == a[i] * k + c
       IN  <<t % LimbBase>> \o BNMulSmallC(a, k, i + 1, t \div LimbBase)

BNMulSmall(a, k) == IF k = 0 THEN << >> ELSE BNMulSmallC(a, k, 1, 0)

BNShiftLimbs(a, n) ==
  IF a = << >> THEN << >> ELSE [i \in 1..n |-> 0] \o a

RECURSIVE BNMulAt(_, _, _)
BNMulAt(a, b, i) ==
  IF i > Len(b) THEN << >>
  ELSE BNAdd(BNShiftLimbs(BNMulSmall(a, b[i]), i - 1), BNMulAt(a, b, i + 1))

BNMul(a, b) == BNMulAt(a, b, 1)

\* quotient and remainder of a by k, 0 < k <= 2^15
RECURSIVE BNDivSmallAt(_, _, _, _)
BNDivSmallAt(a, k, i, r) ==
  IF i = 0 THEN [q |-> << >>, r |-> r]
  ELSE LET cur  == r * LimbBase + a[i]
           rest == BNDivSmallAt(a, k, i - 1, cur % k)
       IN  [q |-> rest.q \o <<cur \div k>>, r |-> rest.r]

BNDivSmall(a, k) ==
  LET d == BNDivSmallAt(a, k, Len(a), 0)
  IN  [q |-> BNNorm(d.q), r |-> d.r]

RECURSIVE IntBitLen(_)
IntBitLen(n) == IF n = 0 THEN 0 ELSE 1 + IntBitLen(n \div 2)

BNBitLen(a) ==
  IF a = << >> THEN 0 ELSE LimbBits * (Len(a) - 1) + IntBitLen(a[Len(a)])

\* a * 2^n
BNShl(a, n) ==
  BNShiftLimbs(BNMulSmall(a, 2 ^ (n % LimbBits)), n \div LimbBits)

\* floor(a / 2^n)
BNShr(a, n) ==
  LET drop == n \div LimbBits
  IN  IF drop >= Len(a) THEN << >>
      ELSE BNDivSmall(SubSeq(a, drop + 1, Len(a)), 2 ^ (n % LimbBits)).q

BNOne == <<1>>

BNIsOdd(a) == a # << >> /\ a[1] % 2 = 1

(***************************************************************************)
(* Binary64 values: s * m * 2^e with s in {1,-1}, m a multi-limb natural   *)
(* below 2^53 (or exactly 2^53), e an integer.  The exponent range of      *)
(* binary64 is not modelled: every value that occurs lies between 2^-60    *)
(* and 2^40, far from overflow and from subnormals.                        *)
(***************************************************************************)
MantBits == 53

FZero == [s |-> 1, m |-> << >>, e |-> 0]

FIsZero(x) == x.m = << >>

\* round-to-nearest, ties-to-even of s * M * 2^e
FRound(s, M, e) ==
  LET n == BNBitLen(M)
  IN  IF M = << >> THEN FZero
      ELSE IF n <= MantBits THEN [s |-> s, m |-> M, e |-> e]
      ELSE LET sh   == n - MantBits
               q    == BNShr(M, sh)
               r    == BNSub(M, BNShl(q, sh))
               half == BNShl(BNOne, sh - 1)
               c    == BNCmp(r, half)
               up   == c > 0 \/ (c = 0 /\ BNIsOdd(q))
           IN  [s |-> s, m |-> IF up THEN BNAdd(q, BNOne) ELSE q, e |-> e + sh]

FFromInt(n) ==
  IF n >= 0 THEN [s |-> 1, m |-> BNFromInt(n), e |-> 0]
            ELSE [s |-> -1, m |-> BNFromInt(0 - n), e |-> 0]

FNeg(x) == [s |-> 0 - x.s, m |-> x.m, e |-> x.e]

FMul(x, y) == FRound(x.s * y.s, BNMul(x.m, y.m), x.e + y.e)

FAdd(x, y) ==
  IF FIsZero(x) THEN y
  ELSE IF FIsZero(y) THEN x
  ELSE LET e  == IF x.e <= y.e THEN x.e ELSE y.e
           mx == BNShl(x.m, x.e - e)
           my == BNShl(y.m, y.e - e)
           c  == BNCmp(mx, my)
       IN  IF x.s = y.s THEN FRound(x.s, BNAdd(mx, my), e)
           ELSE IF c = 0 THEN FZero
           ELSE IF c > 0 THEN FRound(x.s, BNSub(mx, my), e)
           ELSE FRound(y.s, BNSub(my, mx), e)

FSub(x, y) == FAdd(x, FNeg(y))

\* x / k for an integer 0 < k < 2^15: 64 extra quotient bits and a sticky bit
FDivInt(x, k) ==
  LET d == BNDivSmall(BNShl(x.m, 64), k)
      M == BNAdd(BNMulSmall(d.q, 2), IF d.r = 0 THEN << >> ELSE BNOne)
  IN  FRound(x.s, M, x.e - 65)

\* Math.floor of a binary64 value whose floor fits the model's integers
FFloor(x) ==
  IF FIsZero(x) THEN 0
  ELSE IF x.e >= 0 THEN x.s * BNToInt(BNShl(x.m, x.e))
  ELSE LET q     == BNShr(x.m, 0 - x.e)
           exact == BNShl(q, 0 - x.e) = x.m
       IN  IF x.s = 1 THEN BNToInt(q)
           ELSE IF exact THEN 0 - BNToInt(q)
           ELSE 0 - (BNToInt(q) + 1)

\* the binary64 literals 1.6 = 0x3FF999999999999A and 1.4 = 0x3FF6666666666666
F1_6 == [s |-> 1, m |-> <<6554, 13107, 26214, 204>>, e |-> -52]
F1_4 == [s |-> 1, m |-> <<26214, 19660, 6553, 179>>, e |-> -52]


(***************************************************************************)
(* JavaScript values.  An optional value (streamNum, inputBitrate) is the  *)
(* empty tuple when undefined and a one-element tuple when defined.  A     *)
(* string returned by the settings provider is a sequence of characters;   *)
(* the value undefined is the one-token sequence Undefined (parseInt and   *)
(* the template literals see it as the text "undefined").                  *)
(***************************************************************************)
None == << >>
Some(n) == <<n>>
IsDefined(o) == o # << >>
Val(o) == o[1]

Undefined == <<"undefined">>

Digits == {"0", "1", "2", "3", "4", "5", "6", "7", "8", "9"}

DigitVal(c) ==
  CASE c = "0" -> 0 [] c = "1" -> 1 [] c = "2" -> 2 [] c = "3" -> 3
    [] c = "4" -> 4 [] c = "5" -> 5 [] c = "6" -> 6 [] c = "7" -> 7
    [] c = "8" -> 8 [] c = "9" -> 9

NaN == [nan |-> TRUE, val |-> 0]
Num(n) == [nan |-> FALSE, val |-> n]

RECURSIVE SkipWhitespace(_)
SkipWhitespace(s) ==
  IF s # << >> /\ Head(s) = " " THEN SkipWhitespace(Tail(s)) ELSE s

\* value of the leading decimal digits of s, acc the value read so far
RECURSIVE LeadingDigits(_, _)
LeadingDigits(s, acc) ==
  IF s # << >> /\ Head(s) \in Digits
  THEN LeadingDigits(Tail(s), 10 * acc + DigitVal(Head(s)))
  ELSE acc

\* parseInt(string): leading whitespace, optional sign, decimal digits;
\* NaN when no digit follows
parseInt(str) ==
  LET s    == SkipWhitespace(str)
      neg  == s # << >> /\ Head(s) = "-"
      body == IF s # << >> /\ Head(s) \in {"-", "+"} THEN Tail(s) ELSE s
  IN  IF body = << >> \/ Head(body) \notin Digits THEN NaN
      ELSE Num(IF neg THEN 0 - LeadingDigits(body, 0) ELSE LeadingDigits(body, 0))

\* a variation that falls back to 0
NumOr_Zero(n, d) == IF n.nan \/ n.val = 0 THEN 0 ELSE n.val

\* n || d for a number n: d when n is NaN or 0
NumOr(n, d) == IF n.nan \/ n.val = 0 THEN d ELSE n.val

\* s || d for an optional string s: d when s is undefined or empty
StrOr(s, d) == IF s = Undefined \/ s = << >> THEN d ELSE s

(***************************************************************************)
(* VideoResolution of @peertube/peertube-types and the compiled-in tables. *)
(* A Map is a function; TierOrder gives its insertion (iteration) order.   *)
(***************************************************************************)
H_NOVIDEO == 0
H_144P == 144
H_240P == 240
H_360P == 360
H_480P == 480
H_720P == 720
H_1080P == 1080
H_1440P == 1440
H_4K == 2160

Variants == {"main", "p000", "p001a", "p001b", "vaapi"}

TierOrder == <<H_NOVIDEO, H_144P, H_240P, H_360P, H_480P, H_720P, H_1080P, H_1440P, H_4K>>
TierOrder_p001b == <<H_NOVIDEO, H_144P, H_360P, H_480P, H_720P, H_1080P, H_1440P, H_4K>>

Range(s) == {s[i] : i \in 1..Len(s)}

Tiers == Range(TierOrder)

EmptyMap == [r \in {} |-> 0]

DEFAULT_HARDWARE_DECODE == FALSE
DEFAULT_PIX_FMT == <<"yuv420p">>

DEFAULT_QUALITY(v) == IF v = "p001b" THEN 5 ELSE 6
DEFAULT_CRF == 28
DEFAULT_GOP(v) == IF v = "p001b" THEN 1 ELSE 2

DEFAULT_BITRATES_main ==
  (H_NOVIDEO :> 64 * 1000) @@ (H_144P :> 700 * 1000) @@ (H_240P :> 1500 * 1000)
  @@ (H_360P :> 2600 * 1000) @@ (H_480P :> 4200 * 1000) @@ (H_720P :> 7000 * 1000)
  @@ (H_1080P :> 13000 * 1000) @@ (H_1440P :> 19000 * 1000) @@ (H_4K :> 36000 * 1000)

DEFAULT_BITRATES_p001b ==
  (H_NOVIDEO :> 64 * 1000) @@ (H_144P :> 1500 * 1000) @@ (H_360P :> 2500 * 1000)
  @@ (H_480P :> 3500 * 1000) @@ (H_720P :> 6500 * 1000) @@ (H_1080P :> 11000 * 1000)
  @@ (H_1440P :> 17000 * 1000) @@ (H_4K :> 33000 * 1000)

DEFAULT_BITRATES(v) ==
  CASE v = "main" -> DEFAULT_BITRATES_main
    [] v = "p001b" -> DEFAULT_BITRATES_p001b
    [] OTHER -> EmptyMap

BitrateOrder(v) ==
  CASE v = "main" -> TierOrder
    [] v = "p001b" -> TierOrder_p001b
    [] OTHER -> << >>

DEFAULT_CRF_RES_all == [r \in Tiers |-> 28]

DEFAULT_CRF_RES(v) ==
  IF v \in {"main", "p000", "p001a"} THEN DEFAULT_CRF_RES_all ELSE EmptyMap

CrfOrder(v) == IF v \in {"main", "p000", "p001a"} THEN TierOrder ELSE << >>

DEFAULT_PRESET_p000 ==
  (H_NOVIDEO :> 12) @@ (H_144P :> 4) @@ (H_240P :> 4) @@ (H_360P :> 4)
  @@ (H_480P :> 4) @@ (H_720P :> 5) @@ (H_1080P :> 5) @@ (H_1440P :> 6) @@ (H_4K :> 6)

DEFAULT_PRESET(v) == IF v = "p000" THEN DEFAULT_PRESET_p000 ELSE EmptyMap

PresetOrder(v) == IF v = "p000" THEN TierOrder ELSE << >>

\* the module-level pluginSettings object; a field a variant does not have
\* keeps the value given here and is never read or written by that variant
InitialPluginSettings(v) ==
  [hardwareDecode |-> DEFAULT_HARDWARE_DECODE,
   quality        |-> DEFAULT_QUALITY(v),
   crf            |-> DEFAULT_CRF,
   gop            |-> DEFAULT_GOP(v),
   pix_fmt        |-> DEFAULT_PIX_FMT,
   baseBitrate    |-> DEFAULT_BITRATES(v),
   crf_per_res    |-> DEFAULT_CRF_RES(v),
   preset         |-> DEFAULT_PRESET(v)]

INITIAL_LATEST_STREAM_NUM == 9999

\* a variation that starts a new Map on every set
MapSet_Fresh(m, k, x) == [r \in {k} |-> x]

\* Map.set
MapSet(m, k, x) == [r \in (DOMAIN m) \cup {k} |-> IF r = k THEN x ELSE m[r]]
\* Map.get(k) || 0, and a variation that falls back to the audio-only default
MapGetOr0_Fallback(m, k) == IF k \in DOMAIN m THEN m[k] ELSE 64 * 1000

MapGetOr0(m, k) == IF k \in DOMAIN m THEN m[k] ELSE 0


(***************************************************************************)
(* Bitrate computation.                                                    *)
(***************************************************************************)
\* a variation with strict tier thresholds
getBaseBitrate_Strict(resolution) ==
  IF resolution = 0 THEN 64 * 1000
  ELSE IF resolution < 240 THEN 320 * 1000
  ELSE IF resolution < 360 THEN 780 * 1000
  ELSE IF resolution < 480 THEN 1500 * 1000
  ELSE IF resolution < 720 THEN 2800 * 1000
  ELSE IF resolution < 1080 THEN 5200 * 1000
  ELSE IF resolution < 1440 THEN 10000 * 1000
  ELSE 22000 * 1000

\* a variation with the base bitrates the comment in getTargetBitrate was
\* written for (1750 kbps at 720p, 3300 kbps at 1080p)
getBaseBitrate_Commented(resolution) ==
  IF resolution = 0 THEN 64 * 1000
  ELSE IF resolution <= 240 THEN 320 * 1000
  ELSE IF resolution <= 360 THEN 780 * 1000
  ELSE IF resolution <= 480 THEN 1500 * 1000
  ELSE IF resolution <= 720 THEN 1750 * 1000
  ELSE IF resolution <= 1080 THEN 3300 * 1000
  ELSE IF resolution <= 1440 THEN 10000 * 1000
  ELSE 22000 * 1000

\* part_002: hard-coded base bitrates of the h264_vaapi variant
getBaseBitrate(resolution) ==
  IF resolution = 0 THEN 64 * 1000
  ELSE IF resolution <= 240 THEN 320 * 1000
  ELSE IF resolution <= 360 THEN 780 * 1000
  ELSE IF resolution <= 480 THEN 1500 * 1000
  ELSE IF resolution <= 720 THEN 2800 * 1000
  ELSE IF resolution <= 1080 THEN 5200 * 1000
  ELSE IF resolution <= 1440 THEN 10000 * 1000
  ELSE 22000 * 1000

\* the variants that compute a bitrate
HasBitrate(v) == v \in {"main", "p001b", "vaapi"}

\* the literal by which getTargetBitrate multiplies the base bitrate
MaxBitrateFactor(v) == IF v = "vaapi" THEN F1_4 ELSE F1_6

\* first line of getTargetBitrate: the base bitrate of the resolution
BaseBitrateOf(v, ps, resolution) ==
  IF v = "vaapi" THEN getBaseBitrate(resolution)
  ELSE MapGetOr0(ps.baseBitrate, resolution)

\* a variation with the base value anchored at 25 fps
TargetBitrateOfBase_From25(baseBitrate, fps, factor) ==
  LET base == FFromInt(baseBitrate)
      maxBitrate == FMul(base, factor)
      maxBitrateDifference == FSub(maxBitrate, base)
      maxFpsDifference == 60 - 30
  IN  FFloor(FAdd(base, FMul(FFromInt(fps - 25),
                             FDivInt(maxBitrateDifference, maxFpsDifference))))

\* a variation with the maximum reached 10 fps above the base
TargetBitrateOfBase_Steep(baseBitrate, fps, factor) ==
  LET base == FFromInt(baseBitrate)
      maxBitrate == FMul(base, factor)
      maxBitrateDifference == FSub(maxBitrate, base)
      maxFpsDifference == 40 - 30
  IN  FFloor(FAdd(base, FMul(FFromInt(fps - 30),
                             FDivInt(maxBitrateDifference, maxFpsDifference))))

\* a variation with the maximum reached 40 fps above the base
TargetBitrateOfBase_Span40(baseBitrate, fps, factor) ==
  LET base == FFromInt(baseBitrate)
      maxBitrate == FMul(base, factor)
      maxBitrateDifference == FSub(maxBitrate, base)
      maxFpsDifference == 70 - 30
  IN  FFloor(FAdd(base, FMul(FFromInt(fps - 30),
                             FDivInt(maxBitrateDifference, maxFpsDifference))))

\* Math.floor(baseBitrate + (fps - 30) * (maxBitrateDifference / maxFpsDifference))
TargetBitrateOfBase(baseBitrate, fps, factor) ==
  LET base                 == FFromInt(baseBitrate)
      maxBitrate           == FMul(base, factor)
      maxBitrateDifference == FSub(maxBitrate, base)
      maxFpsDifference     == 60 - 30
  IN  FFloor(FAdd(base, FMul(FFromInt(fps - 30),
                             FDivInt(maxBitrateDifference, maxFpsDifference))))

getTargetBitrate(v, ps, resolution, fps) ==
  TargetBitrateOfBase(BaseBitrateOf(v, ps, resolution), fps, MaxBitrateFactor(v))

(***************************************************************************)
(* The builders.  EncoderOptions are modelled by inputOptions (a sequence  *)
(* of flags) and outputOptions (a sequence of <<flag, value>> pairs in the *)
(* order of the source; a flag with a stream suffix carries it as a third  *)
(* component).                                                             *)
(***************************************************************************)
buildInitOptions(ps) ==
  IF ps.hardwareDecode
  THEN <<"-hwaccel vaapi", "-vaapi_device /dev/dri/renderD128", "-hwaccel_output_format vaapi">>
  ELSE <<"-hide_banner">>

initVaapiOptions == <<"-vaapi_device /dev/dri/renderD128">>

InitOptions(v, ps) == IF v = "vaapi" THEN initVaapiOptions ELSE buildInitOptions(ps)

\* a variation with a strict comparison
shouldInitVaapi_Strict(streamNum, latest) ==
  ~IsDefined(streamNum) \/ Val(streamNum) < latest

\* a variation with the comparison reversed
shouldInitVaapi_Above(streamNum, latest) ==
  ~IsDefined(streamNum) \/ Val(streamNum) >= latest

\* a variation that never stores the stream index
UpdatedLatestStreamNum_Keep(streamNum, latest) == latest

\* a variation that stores every defined stream index
UpdatedLatestStreamNum_Always(streamNum, latest) ==
  IF IsDefined(streamNum) THEN Val(streamNum) ELSE latest

\* a variation with the clamp reversed
ClampToInput_Raise(targetBitrate, inputBitrate) ==
  IF IsDefined(inputBitrate) /\ targetBitrate < Val(inputBitrate)
  THEN Val(inputBitrate) ELSE targetBitrate

\* let shouldInitVaapi = (streamNum == undefined || streamNum <= latestStreamNum)
shouldInitVaapi(streamNum, latest) ==
  ~IsDefined(streamNum) \/ Val(streamNum) <= latest

\* if (shouldInitVaapi && streamNum != undefined) latestStreamNum = streamNum
UpdatedLatestStreamNum(streamNum, latest) ==
  IF shouldInitVaapi(streamNum, latest) /\ IsDefined(streamNum)
  THEN Val(streamNum) ELSE latest

\* if (targetBitrate > inputBitrate) targetBitrate = inputBitrate
\* (a comparison with undefined is false)
ClampToInput(targetBitrate, inputBitrate) ==
  IF IsDefined(inputBitrate) /\ targetBitrate > Val(inputBitrate)
  THEN Val(inputBitrate) ELSE targetBitrate

\* the targetBitrate of a builder after its clamp; only the SVT-AV1 builders
\* read inputBitrate, and the variants without bitrate tables compute none
ClampedBitrate(v, target, inputBitrate) ==
  IF v = "vaapi" THEN target ELSE ClampToInput(target, inputBitrate)

EmittedBitrate(v, ps, params) ==
  IF HasBitrate(v)
  THEN ClampedBitrate(v, getTargetBitrate(v, ps, params.resolution, params.fps),
                      params.inputBitrate)
  ELSE 0

\* `-g ${fps}*${gop}`: the text "<fps>*<gop>", no product is computed
GopText(fps, gop) == <<fps, "*", gop>>

vodOutputOptions(v, ps, params, tb) ==
  LET fps == params.fps
      res == params.resolution
  IN  CASE v = "main" ->
             << <<"-preset", ps.quality>>, <<"-pix_fmt", <<"yuv420p">> >>,
                <<"-crf", MapGetOr0(ps.baseBitrate, res)>>,
                <<"-maxrate", tb>>, <<"-bufsize", tb * 2>>,
                <<"-g", GopText(fps, ps.gop)>> >>
        [] v = "p000" ->
             << <<"-preset", MapGetOr0(ps.preset, res)>>, <<"-pix_fmt", ps.pix_fmt>>,
                <<"-crf", MapGetOr0(ps.crf_per_res, res)>>,
                <<"-g", GopText(fps, ps.gop)>> >>
        [] v = "p001a" ->
             << <<"-preset", ps.quality>>, <<"-pix_fmt", <<"yuv420p">> >>,
                <<"-crf", MapGetOr0(ps.crf_per_res, res)>>,
                <<"-g", GopText(fps, ps.gop)>> >>
        [] v = "p001b" ->
             << <<"-preset", ps.quality>>, <<"-pix_fmt", <<"yuv420p">> >>,
                <<"-crf", ps.crf>>,
                <<"-maxrate", tb>>, <<"-bufsize", tb * 2>>,
                <<"-g", GopText(fps, ps.gop)>> >>
        [] v = "vaapi" ->
             << <<"-bf", 8>>, <<"-preset", <<"veryfast">> >>,
                <<"-b:v", tb, params.streamNum>>,
                <<"-maxrate", tb>>, <<"-bufsize", tb * 2>> >>

liveOutputOptions(v, ps, params, tb) ==
  LET fps == params.fps
      sfx == params.streamNum
  IN  CASE v \in {"main", "p001b"} ->
             << <<"-preset", ps.quality>>, <<"-r:v", fps, sfx>>,
                <<"-g:v", fps * 1, sfx>>, <<"-b:v", tb, sfx>>,
                <<"-bufsize", tb * 2>> >>
        [] v = "p000" ->
             << <<"-preset", <<"[object Map]">> >>, <<"-r:v", fps, sfx>>,
                <<"-g:v", fps * 1, sfx>> >>
        [] v = "p001a" ->
             << <<"-preset", ps.quality>>, <<"-r:v", fps, sfx>>,
                <<"-g:v", fps * 1, sfx>> >>
        [] v = "vaapi" ->
             << <<"-bf", 8>>, <<"-preset", <<"veryfast">> >>, <<"-r:v", fps, sfx>>,
                <<"-g:v", fps * 2, sfx>>, <<"-b:v", tb, sfx>>,
                <<"-maxrate", tb>>, <<"-bufsize", tb * 2>> >>

audioOutputOptions == << <<"-b:a", <<"320k">> >>, <<"-af", <<"loudnorm=I=-14:LRA=11:TP=-1">> >> >>

HasFlag(opts, flag) == \E i \in 1..Len(opts) : opts[i][1] = flag
FlagValue(opts, flag) == opts[CHOOSE i \in 1..Len(opts) : opts[i][1] = flag][2]


(***************************************************************************)
(* loadSettings: the settings it awaits, in order, and what it writes on   *)
(* resuming from each await.                                               *)
(***************************************************************************)
RECURSIVE KeysFor(_, _)
KeysFor(name, order) ==
  IF order = << >> THEN << >>
  ELSE << <<name, Head(order)>> >> \o KeysFor(name, Tail(order))

\* main.ts:236-254
Steps_main ==
  << <<"hardware-decode">>, <<"quality">>, <<"crf">>, <<"gop">> >>
  \o KeysFor("base-bitrate", TierOrder) \o KeysFor("crf-for", TierOrder)

\* part_000:182-199
Steps_p000 ==
  << <<"hardware-decode">>, <<"pix_fmt">>, <<"gop">> >>
  \o KeysFor("crf-for", TierOrder) \o KeysFor("preset-for", TierOrder)

\* part_001:153-163
Steps_p001a ==
  << <<"hardware-decode">>, <<"quality">>, <<"gop">> >>
  \o KeysFor("crf-for", TierOrder)

\* part_001:468-479
Steps_p001b ==
  << <<"hardware-decode">>, <<"quality">>, <<"crf">>, <<"gop">> >>
  \o KeysFor("base-bitrate", TierOrder_p001b)

Steps(v) ==
  CASE v = "main" -> Steps_main
    [] v = "p000" -> Steps_p000
    [] v = "p001a" -> Steps_p001a
    [] v = "p001b" -> Steps_p001b
    [] v = "vaapi" -> << >>

HasSettings(v) == Steps(v) # << >>

Keys(v) == Range(Steps(v))

\* the assignment loadSettings performs with the value the provider returned
ApplySetting(v, ps, key, stored) ==
  CASE key[1] = "hardware-decode" ->
         [ps EXCEPT !.hardwareDecode = (stored = <<"t", "r", "u", "e">>)]
    [] key[1] = "quality" ->
         [ps EXCEPT !.quality = NumOr(parseInt(stored), DEFAULT_QUALITY(v))]
    [] key[1] = "crf" ->
         [ps EXCEPT !.crf = NumOr(parseInt(stored), DEFAULT_CRF)]
    [] key[1] = "gop" ->
         [ps EXCEPT !.gop = NumOr(parseInt(stored), DEFAULT_GOP(v))]
    [] key[1] = "pix_fmt" ->
         [ps EXCEPT !.pix_fmt = StrOr(stored, DEFAULT_PIX_FMT)]
    [] key[1] = "base-bitrate" ->
         [ps EXCEPT !.baseBitrate =
            MapSet(@, key[2], NumOr(parseInt(stored), DEFAULT_BITRATES(v)[key[2]]))]
    [] key[1] = "crf-for" ->
         [ps EXCEPT !.crf_per_res =
            MapSet(@, key[2], NumOr(parseInt(stored), DEFAULT_CRF_RES(v)[key[2]]))]
    [] key[1] = "preset-for" ->
         \* part_000:197 stores the preset into crfPerResolution
         [ps EXCEPT !.crf_per_res =
            MapSet(@, key[2], NumOr(parseInt(stored), DEFAULT_PRESET(v)[key[2]]))]

\* a whole loadSettings run against an unchanging store, from step i on
RECURSIVE LoadedFrom(_, _, _, _)
LoadedFrom(v, ps, st, i) ==
  IF i > Len(Steps(v)) THEN ps
  ELSE LoadedFrom(v, ApplySetting(v, ps, Steps(v)[i], st[Steps(v)[i]]), st, i + 1)

LoadedSettings(v, st) == LoadedFrom(v, InitialPluginSettings(v), st, 1)

(***************************************************************************)
(* State.                                                                  *)
(***************************************************************************)
VARIABLES
  variant,          \* which of the five modules is loaded
  store,            \* the settings provider: key -> stored string
  pluginSettings,   \* the module-level pluginSettings object
  latestStreamNum,  \* the module-level latestStreamNum
  loads,            \* the loadSettings invocations in flight
  registered,       \* register() has returned: onSettingsChange is installed
  changes,          \* number of settings changes so far
  lastDone,         \* history: how the last completed loadSettings ran
  call,             \* the builder call whose result the host holds
  jobs,             \* history: the transcoding jobs of the host
  callJob,          \* history: job and position of the call in `call`
  overlap,          \* history: two jobs have been active at the same time
  zeroStart,        \* history: every job so far started at stream index 0
  seen              \* history: the defined stream indices passed so far

progVars == <<variant, store, pluginSettings, latestStreamNum, loads, registered>>
loadVars == <<store, pluginSettings, loads, registered, changes, lastDone>>
jobVars  == <<jobs, callJob, overlap, zeroStart, seen>>
vars == <<variant, store, pluginSettings, latestStreamNum, loads, registered,
          changes, lastDone, call, jobs, callJob, overlap, zeroStart, seen>>

(***************************************************************************)
(* Bounds of the model.                                                    *)
(***************************************************************************)
MaxChanges == 2     \* settings changes in one run
MaxJobs == 2        \* jobs of the host
MaxStream == 2      \* largest stream index of a job

Jobs == 1..MaxJobs
StreamNums == 0..MaxStream

NoCall == [op |-> "none"]
NoJob == [job |-> 0, first |-> FALSE]
IdleJob == [active |-> FALSE, last |-> -1]

NewLoad(isRegister, alone) ==
  [pc |-> 1, fetched |-> FALSE, val |-> Undefined, isRegister |-> isRegister,
   alone |-> alone, stable |-> TRUE]


(***************************************************************************)
(* Inputs of the model.                                                    *)
(***************************************************************************)
\* strings the settings provider may hold for a numeric setting
StoredValues == {Undefined, <<"0">>, <<"4", "5">>}

\* the setting an administrator edits in a run
EditedKeys(v) ==
  CASE v = "main"  -> {<<"base-bitrate", H_720P>>}
    [] v = "p000"  -> {<<"preset-for", H_720P>>}
    [] v = "p001a" -> {<<"crf-for", H_720P>>}
    [] v = "p001b" -> {<<"base-bitrate", H_720P>>}
    [] v = "vaapi" -> {}

NoOverrides(v) == [k \in Keys(v) |-> Undefined]

\* the store when the plugin is loaded: nothing stored, or one edited setting
InitialStores(v) ==
  {NoOverrides(v)} \cup
  {[NoOverrides(v) EXCEPT ![k] = <<"4", "5">>] : k \in EditedKeys(v)}

Params(resolutions, fpss, streamNums, inputBitrates) ==
  [resolution : resolutions, fps : fpss, streamNum : streamNums,
   inputBitrate : inputBitrates]

\* requests of the full-lifecycle specification
SpecParams == Params({H_720P}, {60}, {None}, {Some(1000)})

(***************************************************************************)
(* register and loadSettings.                                              *)
(***************************************************************************)
\* register(): adds the profiles, then awaits loadSettings (main.ts:57-79);
\* the h264_vaapi variant has no settings and returns at once
Register ==
  /\ registered = "unregistered"
  /\ IF HasSettings(variant)
     THEN /\ registered' = "loading"
          /\ loads' = <<NewLoad(TRUE, TRUE)>>
     ELSE /\ registered' = "registered"
          /\ loads' = loads
  /\ UNCHANGED <<variant, store, pluginSettings, latestStreamNum, changes,
                 lastDone, call>>

\* the administrator saves a setting; once register() has installed the
\* onSettingsChange handler, the handler starts a loadSettings without
\* awaiting it (main.ts:225-227)
ChangeSetting(k, val) ==
  /\ registered # "unregistered"
  /\ changes < MaxChanges
  /\ store[k] # val
  /\ store' = [store EXCEPT ![k] = val]
  /\ changes' = changes + 1
  /\ LET running == [i \in 1..Len(loads) |->
                       [loads[i] EXCEPT !.stable = FALSE,
                                        !.alone = IF registered = "registered"
                                                  THEN FALSE ELSE @]]
     IN  loads' = IF registered = "registered"
                  THEN Append(running, NewLoad(FALSE, loads = << >>))
                  ELSE running
  /\ UNCHANGED <<variant, pluginSettings, latestStreamNum, registered,
                 lastDone, call>>

\* the provider reads the awaited setting of invocation i; the read of a
\* setting that is never edited returns the same value whenever it happens,
\* and is taken when the invocation resumes
Fetch(i) ==
  /\ ~loads[i].fetched
  /\ Steps(variant)[loads[i].pc] \in EditedKeys(variant)
  /\ loads' = [loads EXCEPT ![i] =
                 [@ EXCEPT !.fetched = TRUE,
                           !.val = store[Steps(variant)[loads[i].pc]]]]
  /\ UNCHANGED <<variant, store, pluginSettings, latestStreamNum, registered,
                 changes, lastDone, call>>

RemoveAt(q, i) == SubSeq(q, 1, i - 1) \o SubSeq(q, i + 1, Len(q))

\* invocation i resumes from its await: it writes the setting and runs to
\* its next await, or to its end
Resume(i) ==
  /\ loads[i].fetched \/ Steps(variant)[loads[i].pc] \notin EditedKeys(variant)
  /\ pluginSettings' = ApplySetting(variant, pluginSettings,
                                    Steps(variant)[loads[i].pc],
                                    IF loads[i].fetched THEN loads[i].val
                                    ELSE store[Steps(variant)[loads[i].pc]])
  /\ IF loads[i].pc < Len(Steps(variant))
     THEN /\ loads' = [loads EXCEPT ![i] =
                         [@ EXCEPT !.pc = @ + 1, !.fetched = FALSE,
                                   !.val = Undefined]]
          /\ UNCHANGED <<registered, lastDone>>
     ELSE /\ loads' = RemoveAt(loads, i)
          /\ lastDone' = [any |-> TRUE, alone |-> loads[i].alone,
                          stable |-> loads[i].stable]
          /\ registered' = IF loads[i].isRegister THEN "registered" ELSE registered
  /\ UNCHANGED <<variant, store, latestStreamNum, changes, call>>

(***************************************************************************)
(* The builders.  A builder has no await: it runs to completion when the   *)
(* host calls it.  `call` keeps the call and its result until the host has *)
(* consumed it.                                                            *)
(***************************************************************************)
\* a variation that stores its init decision in pluginSettings
videoBuilder_Storing(live, params) ==
  /\ registered # "unregistered"
  /\ call = NoCall
  /\ LET tb == EmittedBitrate(variant, pluginSettings, params)
     IN  call' = [op |-> IF live THEN "liveBuilder" ELSE "vodBuilder",
                  params |-> params, latestBefore |-> latestStreamNum,
                  inputOptions |->
                    IF shouldInitVaapi(params.streamNum, latestStreamNum)
                    THEN InitOptions(variant, pluginSettings) ELSE << >>,
                  outputOptions |->
                    IF live THEN liveOutputOptions(variant, pluginSettings, params, tb)
                    ELSE vodOutputOptions(variant, pluginSettings, params, tb)]
  /\ latestStreamNum' = UpdatedLatestStreamNum(params.streamNum, latestStreamNum)
  /\ pluginSettings' =
       [pluginSettings EXCEPT
          !.hardwareDecode = shouldInitVaapi(params.streamNum, latestStreamNum)]
  /\ UNCHANGED <<variant, store, loads, registered, changes, lastDone>>

\* vodBuilder (live = FALSE) and liveBuilder (live = TRUE): the two differ
\* in their output flags only
videoBuilder(live, params) ==
  /\ registered # "unregistered"
  /\ call = NoCall
  /\ LET tb == EmittedBitrate(variant, pluginSettings, params)
     IN  call' = [op |-> IF live THEN "liveBuilder" ELSE "vodBuilder",
                  params |-> params, latestBefore |-> latestStreamNum,
                  inputOptions |->
                    IF shouldInitVaapi(params.streamNum, latestStreamNum)
                    THEN InitOptions(variant, pluginSettings) ELSE << >>,
                  outputOptions |->
                    IF live THEN liveOutputOptions(variant, pluginSettings, params, tb)
                    ELSE vodOutputOptions(variant, pluginSettings, params, tb)]
  /\ latestStreamNum' = UpdatedLatestStreamNum(params.streamNum, latestStreamNum)
  /\ UNCHANGED <<variant, store, pluginSettings, loads, registered, changes,
                 lastDone>>

vodBuilder(params) == videoBuilder(FALSE, params)

liveBuilder(params) == videoBuilder(TRUE, params)

vodAudioBuilder(params) ==
  /\ variant # "vaapi"
  /\ registered # "unregistered"
  /\ call = NoCall
  /\ call' = [op |-> "vodAudioBuilder", params |-> params,
              latestBefore |-> latestStreamNum,
              inputOptions |-> << >>, outputOptions |-> audioOutputOptions]
  /\ UNCHANGED <<variant, store, pluginSettings, latestStreamNum, loads,
                 registered, changes, lastDone>>

\* the host takes the returned EncoderOptions
Consume ==
  /\ call # NoCall
  /\ call' = NoCall
  /\ callJob' = NoJob
  /\ UNCHANGED <<variant, store, pluginSettings, latestStreamNum, loads,
                 registered, changes, lastDone, jobs, overlap, zeroStart, seen>>

(***************************************************************************)
(* Spec: the life of one plugin, from module load on.                      *)
(***************************************************************************)
Init ==
  /\ variant \in Variants
  /\ store \in InitialStores(variant)
  /\ pluginSettings = InitialPluginSettings(variant)
  /\ latestStreamNum = INITIAL_LATEST_STREAM_NUM
  /\ loads = << >>
  /\ registered = "unregistered"
  /\ changes = 0
  /\ lastDone = [any |-> FALSE, alone |-> FALSE, stable |-> FALSE]
  /\ call = NoCall
  /\ jobs = [j \in Jobs |-> IdleJob]
  /\ callJob = NoJob
  /\ overlap = FALSE
  /\ zeroStart = TRUE
  /\ seen = {}

DoRegister == Register /\ UNCHANGED jobVars
DoChangeSetting ==
  \E k \in EditedKeys(variant), val \in StoredValues :
     ChangeSetting(k, val) /\ UNCHANGED jobVars
DoFetch == \E i \in 1..Len(loads) : Fetch(i) /\ UNCHANGED jobVars
DoResume == \E i \in 1..Len(loads) : Resume(i) /\ UNCHANGED jobVars
CallVideo ==
  \E live \in BOOLEAN, p \in SpecParams : videoBuilder(live, p) /\ UNCHANGED jobVars
CallAudio == \E p \in SpecParams : vodAudioBuilder(p) /\ UNCHANGED jobVars

Next ==
  \/ DoRegister
  \/ DoChangeSetting
  \/ DoFetch
  \/ DoResume
  \/ CallVideo
  \/ CallAudio
  \/ Consume

Spec == Init /\ [][Next]_vars


(***************************************************************************)
(* SpecRate: the bitrate computation of the variants that emit a bitrate,  *)
(* over many requests, from the state a completed loadSettings leaves.     *)
(***************************************************************************)
RateVariants == {v \in Variants : HasBitrate(v)}

\* stored base bitrates of the 720p tier
RateStoredValues == {<<"1">>, <<"4", "5">>, <<"9", "9", "9", "9", "9", "9", "9">>}

RateStores(v) ==
  {NoOverrides(v)} \cup
  {[NoOverrides(v) EXCEPT ![k] = val] :
     k \in Keys(v) \cap {<<"base-bitrate", H_720P>>}, val \in RateStoredValues}

RateFps == {0, 10, 24, 30, 45, 60, 120}
RateInputBitrates == {None, Some(1000000), Some(8000000)}
RateParams == Params(Tiers, RateFps, {None}, RateInputBitrates)

InitRate ==
  /\ variant \in RateVariants
  /\ store \in RateStores(variant)
  /\ pluginSettings = LoadedSettings(variant, store)
  /\ latestStreamNum = INITIAL_LATEST_STREAM_NUM
  /\ loads = << >>
  /\ registered = "registered"
  /\ changes = 0
  /\ lastDone = [any |-> HasSettings(variant), alone |-> TRUE, stable |-> TRUE]
  /\ call = NoCall
  /\ jobs = [j \in Jobs |-> IdleJob]
  /\ callJob = NoJob
  /\ overlap = FALSE
  /\ zeroStart = TRUE
  /\ seen = {}

RateVideo ==
  \E live \in BOOLEAN, p \in RateParams : videoBuilder(live, p) /\ UNCHANGED jobVars

NextRate ==
  \/ RateVideo
  \/ Consume

SpecRate == InitRate /\ [][NextRate]_vars

(***************************************************************************)
(* SpecJobs: the host runs jobs; a job requests its streams in strictly    *)
(* increasing stream-index order; a request without streamNum is a job of  *)
(* its own.  Jobs may follow one another or interleave.                    *)
(***************************************************************************)
JobParams(streamNum) ==
  [resolution |-> H_720P, fps |-> 30, streamNum |-> streamNum, inputBitrate |-> None]

InitJobs ==
  /\ variant \in Variants
  /\ store = NoOverrides(variant)
  /\ pluginSettings = LoadedSettings(variant, store)
  /\ latestStreamNum = INITIAL_LATEST_STREAM_NUM
  /\ loads = << >>
  /\ registered = "registered"
  /\ changes = 0
  /\ lastDone = [any |-> HasSettings(variant), alone |-> TRUE, stable |-> TRUE]
  /\ call = NoCall
  /\ jobs = [j \in Jobs |-> IdleJob]
  /\ callJob = NoJob
  /\ overlap = FALSE
  /\ zeroStart = TRUE
  /\ seen = {}

OtherJobActive(j) == \E j2 \in Jobs : j2 # j /\ jobs[j2].active

\* a request of the host through vodBuilder or liveBuilder: job j requests
\* stream Val(streamNum); a request without streamNum is a job (0) of one
\* request
Request(j, streamNum, live) ==
  /\ (j = 0) = ~IsDefined(streamNum)
  /\ j # 0 => Val(streamNum) > jobs[j].last
  /\ videoBuilder(live, JobParams(streamNum))
  /\ jobs' = IF j = 0 THEN jobs
             ELSE [jobs EXCEPT ![j] = [active |-> TRUE, last |-> Val(streamNum)]]
  /\ callJob' = [job |-> j, first |-> j = 0 \/ ~jobs[j].active]
  /\ overlap' = (overlap \/ OtherJobActive(j))
  /\ zeroStart' = (zeroStart /\ (j = 0 \/ jobs[j].active \/ Val(streamNum) = 0))
  /\ seen' = IF j = 0 THEN seen ELSE seen \cup {Val(streamNum)}

\* job j is over; the next request of slot j belongs to a new job
JobEnd(j) ==
  /\ jobs[j].active
  /\ jobs' = [jobs EXCEPT ![j] = IdleJob]
  /\ UNCHANGED <<variant, store, pluginSettings, latestStreamNum, loads,
                 registered, changes, lastDone, call, callJob, overlap,
                 zeroStart, seen>>

DoRequest ==
  \E j \in Jobs \cup {0}, sn \in {None} \cup {Some(n) : n \in StreamNums},
     live \in BOOLEAN : Request(j, sn, live)
DoJobEnd == \E j \in Jobs : JobEnd(j)

NextJobs ==
  \/ DoRequest
  \/ DoJobEnd
  \/ Consume

SpecJobs == InitJobs /\ [][NextJobs]_vars


(***************************************************************************)
(* SpecReload: reloads one after another.  The administrator saves a       *)
(* setting only while no loadSettings is in flight, so every reload reads  *)
(* one unchanging store; the stored strings are of every kind.             *)
(***************************************************************************)
\* unset, zero, a positive integer, a negative integer, not a number
ReloadValues == {Undefined, <<"0">>, <<"4", "5">>, <<"-", "5">>, <<"a", "b">>}

\* the settings saved: the scalar numeric ones and the 720p overrides
ReloadKeys(v) ==
  Keys(v) \cap {<<"quality">>, <<"crf">>, <<"gop">>, <<"base-bitrate", H_720P>>,
                <<"crf-for", H_720P>>, <<"preset-for", H_720P>>}

SaveSetting(k, val) ==
  /\ loads = << >>
  /\ ChangeSetting(k, val)

DoSave ==
  \E k \in ReloadKeys(variant), val \in ReloadValues :
     SaveSetting(k, val) /\ UNCHANGED jobVars

NextReload ==
  \/ DoRegister
  \/ DoFetch
  \/ DoResume
  \/ DoSave

SpecReload == Init /\ [][NextReload]_vars

(***************************************************************************)
(* SpecServe: the host serves requests while the plugin is registered,     *)
(* unregistered and registered again, and while reloads run.  The stream   *)
(* indices of the requests come in any order, as the requests of any       *)
(* number of interleaved jobs do.  The store may hold two overrides when   *)
(* the plugin is loaded; saves come one reload at a time.                  *)
(***************************************************************************)
\* nothing stored, or gop and the edited setting both stored as 45
ServeStores(v) ==
  {NoOverrides(v)} \cup
  {[NoOverrides(v) EXCEPT ![<<"gop">>] = <<"4", "5">>, ![k] = <<"4", "5">>] :
     k \in EditedKeys(v)}

InitServe ==
  /\ variant \in Variants
  /\ store \in ServeStores(variant)
  /\ pluginSettings = InitialPluginSettings(variant)
  /\ latestStreamNum = INITIAL_LATEST_STREAM_NUM
  /\ loads = << >>
  /\ registered = "unregistered"
  /\ changes = 0
  /\ lastDone = [any |-> FALSE, alone |-> FALSE, stable |-> FALSE]
  /\ call = NoCall
  /\ jobs = [j \in Jobs |-> IdleJob]
  /\ callJob = NoJob
  /\ overlap = FALSE
  /\ zeroStart = TRUE
  /\ seen = {}

\* a variation that puts latestStreamNum back to the sentinel
Unregister_Reset ==
  /\ registered = "registered"
  /\ loads = << >>
  /\ registered' = "unregistered"
  /\ latestStreamNum' = INITIAL_LATEST_STREAM_NUM
  /\ UNCHANGED <<variant, store, pluginSettings, loads, changes, lastDone, call>>

\* unregister(): removes the profiles and returns (main.ts:230-234); the
\* module and its variables stay loaded
Unregister ==
  /\ registered = "registered"
  /\ loads = << >>
  /\ registered' = "unregistered"
  /\ UNCHANGED <<variant, store, pluginSettings, latestStreamNum, loads,
                 changes, lastDone, call>>

DoUnregister == Unregister /\ UNCHANGED jobVars

DoEdit ==
  \E k \in EditedKeys(variant), val \in StoredValues :
     SaveSetting(k, val) /\ UNCHANGED jobVars

\* a request of the host through vodBuilder or liveBuilder
Serve(streamNum, live) ==
  /\ videoBuilder(live, JobParams(streamNum))
  /\ seen' = IF IsDefined(streamNum) THEN seen \cup {Val(streamNum)} ELSE seen
  /\ UNCHANGED <<jobs, callJob, overlap, zeroStart>>

DoServe ==
  \E sn \in {None} \cup {Some(n) : n \in StreamNums}, live \in BOOLEAN :
     Serve(sn, live)

NextServe ==
  \/ DoRegister
  \/ DoUnregister
  \/ DoEdit
  \/ DoFetch
  \/ DoResume
  \/ DoServe
  \/ Consume

SpecServe == InitServe /\ [][NextServe]_vars


(***************************************************************************)
(* Properties.                                                             *)
(***************************************************************************)
VideoCall == call.op \in {"vodBuilder", "liveBuilder"}

\* the bitrate flag of the call: -maxrate of vodBuilder, -b:v of liveBuilder
CallBitrate ==
  IF call.op = "vodBuilder" THEN FlagValue(call.outputOptions, "-maxrate")
  ELSE FlagValue(call.outputOptions, "-b:v")

\* the request's tier has a configured base bitrate, and that bitrate
TierConfigured(r) == variant = "vaapi" \/ r \in DOMAIN pluginSettings.baseBitrate
ConfiguredBitrate(r) ==
  IF variant = "vaapi" THEN getBaseBitrate(r) ELSE pluginSettings.baseBitrate[r]

\* a call whose bitrate flag is what getTargetBitrate returned for a
\* configured tier: a bitrate variant, no inputBitrate
UnclampedCall ==
  /\ VideoCall
  /\ HasBitrate(variant)
  /\ call.params.inputBitrate = None
  /\ TierConfigured(call.params.resolution)

Abs(x) == IF x < 0 THEN 0 - x ELSE x
Min2(x, y) == IF x <= y THEN x ELSE y

\* K as a fraction KNum / 5, and (K - 1) / 30 as 1 / SlopeDen
KNum == IF variant = "vaapi" THEN 7 ELSE 8
SlopeDen == IF variant = "vaapi" THEN 75 ELSE 50

\* C1: at frame rate 30 getTargetBitrate returns exactly the configured base
\* bitrate of the tier, in every variant that computes a bitrate.
C1_BaseAt30 ==
  (UnclampedCall /\ call.params.fps = 30)
    => CallBitrate = ConfiguredBitrate(call.params.resolution)

\* C1 witness: main.ts served a 30 fps request of a tier whose stored base
\* bitrate is 45 and returned 45.
C1_Witness ==
  /\ UnclampedCall
  /\ variant = "main"
  /\ call.params.fps = 30
  /\ call.params.resolution = H_720P
  /\ pluginSettings.baseBitrate[H_720P] = 45
  /\ CallBitrate = 45

\* C2 as claimed: at frame rate 60 getTargetBitrate returns floor(b * K),
\* K = 8/5 in the SVT-AV1 variants and 7/5 in the h264_vaapi variant.
C2_FloorAt60 ==
  (UnclampedCall /\ call.params.fps = 60)
    => CallBitrate = (ConfiguredBitrate(call.params.resolution) * KNum) \div 5

\* C3 as claimed: the returned values of one base bitrate lie on one line:
\* every frame rate f has T(f) - T(30) = (f - 30) * c with the one constant
\* c = (T(60) - T(30)) / 30.
C3_Proportional ==
  UnclampedCall =>
    LET T30 == getTargetBitrate(variant, pluginSettings, call.params.resolution, 30)
        T60 == getTargetBitrate(variant, pluginSettings, call.params.resolution, 60)
    IN  30 * (CallBitrate - T30) = (call.params.fps - 30) * (T60 - T30)

\* C3 amended: for a fixed base bitrate b and any two frame rates f1, f2 the
\* difference of the returned values differs from (f2 - f1) * b * (K - 1) / 30
\* by at most 1.  With b = SlopeDen * q + r the difference of the two, times
\* SlopeDen, is SlopeDen * (dT - df * q) - df * r.
C3_WithinOne ==
  UnclampedCall =>
    \A f2 \in RateFps :
      LET b  == ConfiguredBitrate(call.params.resolution)
          q  == b \div SlopeDen
          r  == b % SlopeDen
          dT == getTargetBitrate(variant, pluginSettings, call.params.resolution, f2)
                  - CallBitrate
          df == f2 - call.params.fps
      IN  Abs(SlopeDen * (dT - df * q) - df * r) <= SlopeDen

\* C3 witness: the h264_vaapi variant returned 234666 for 240p at 10 fps
\* (320000 - 20 * 4266.67 floored), off the line through 30 and 60 fps.
C3_Witness ==
  /\ UnclampedCall
  /\ variant = "vaapi"
  /\ call.params.resolution = H_240P
  /\ call.params.fps = 10
  /\ CallBitrate = 234666

\* C4: in the SVT-AV1 variants that emit a bitrate, the emitted bitrate is
\* min(getTargetBitrate, inputBitrate) when inputBitrate is provided and
\* getTargetBitrate otherwise, -bufsize is twice it, and it never exceeds a
\* provided inputBitrate.
C4_ClampedToInput ==
  (VideoCall /\ variant \in {"main", "p001b"}) =>
    LET T  == getTargetBitrate(variant, pluginSettings, call.params.resolution,
                               call.params.fps)
        ib == call.params.inputBitrate
    IN  /\ CallBitrate = IF ib = None THEN T ELSE Min2(T, Val(ib))
        /\ ib # None => CallBitrate <= Val(ib)
        /\ FlagValue(call.outputOptions, "-bufsize") = 2 * CallBitrate

\* C4 witness: main.ts clamped a 4K target above 8000000 to the provided
\* inputBitrate 8000000.
C4_Witness ==
  /\ VideoCall
  /\ variant = "main"
  /\ call.params.inputBitrate = Some(8000000)
  /\ getTargetBitrate(variant, pluginSettings, call.params.resolution,
                      call.params.fps) > 8000000
  /\ CallBitrate = 8000000

\* C5 as claimed: in the h264_vaapi variant -b:v and -maxrate never exceed a
\* provided inputBitrate that is smaller than the unclamped target.
C5_VaapiClamped ==
  (/\ VideoCall
   /\ variant = "vaapi"
   /\ call.params.inputBitrate # None
   /\ Val(call.params.inputBitrate)
        < getTargetBitrate(variant, pluginSettings, call.params.resolution,
                           call.params.fps))
    => /\ FlagValue(call.outputOptions, "-b:v") <= Val(call.params.inputBitrate)
       /\ FlagValue(call.outputOptions, "-maxrate") <= Val(call.params.inputBitrate)

\* a request of a job with a stream index, and whether it got init flags
JobCall == VideoCall /\ callJob.job # 0
GotInit == call.inputOptions # << >>

\* C6 as claimed: when jobs run one after another, each requesting its
\* streams in strictly increasing index order, exactly the first request of
\* each job gets init flags, and every request gets output flags.
C6_FirstOnly ==
  (VideoCall /\ ~overlap) =>
    /\ GotInit <=> callJob.first
    /\ call.outputOptions # << >>

\* C6 amended: the same for jobs whose stream indices start at 0.
C6_FirstOnlyFromZero ==
  (VideoCall /\ ~overlap /\ zeroStart) =>
    /\ GotInit <=> callJob.first
    /\ call.outputOptions # << >>

\* C6 witness: a later job, run after an earlier one had left
\* latestStreamNum at 0, got init flags for its first request.
C6_Witness ==
  /\ JobCall
  /\ ~overlap
  /\ zeroStart
  /\ callJob.first
  /\ call.latestBefore = 0
  /\ GotInit

\* C7: a video builder call gets init flags iff its streamNum is undefined
\* or at most the latestStreamNum before the call; afterwards latestStreamNum
\* is streamNum if the call got init flags and streamNum is defined, and is
\* unchanged otherwise.
C7_Gating ==
  VideoCall =>
    LET sn       == call.params.streamNum
        eligible == sn = None \/ Val(sn) <= call.latestBefore
    IN  /\ GotInit <=> eligible
        /\ latestStreamNum = IF eligible /\ sn # None THEN Val(sn)
                             ELSE call.latestBefore

\* C7 witness: a request with a stream index above latestStreamNum was
\* rejected and left latestStreamNum unchanged.
C7_Witness ==
  /\ VideoCall
  /\ call.params.streamNum # None
  /\ Val(call.params.streamNum) > call.latestBefore
  /\ ~GotInit
  /\ latestStreamNum = call.latestBefore

\* C8: with the one shared latestStreamNum a job's request gets init flags
\* iff it is the job's first request and no smaller stream index has been
\* served to any job before; so the first request of a job gets no init
\* flags once another job has been served a smaller index, which interleaved
\* jobs reach (C8_Witness).
C8_DecisionShared ==
  JobCall =>
    (GotInit <=> (callJob.first
                    /\ \A m \in seen : m >= Val(call.params.streamNum)))

\* C8 witness: two jobs were active at once and the first request of one of
\* them got no init flags.
C8_Witness ==
  /\ JobCall
  /\ overlap
  /\ callJob.first
  /\ ~GotInit

SetMax(S) == CHOOSE x \in S : \A y \in S : y <= x
SetMin(S) == CHOOSE x \in S : \A y \in S : x <= y

\* C9 as claimed: latestStreamNum is the highest defined stream index seen so
\* far, and the sentinel while none was seen.
C9_Highest ==
  latestStreamNum = IF seen = {} THEN INITIAL_LATEST_STREAM_NUM ELSE SetMax(seen)

\* C9 amended: latestStreamNum is the lowest defined stream index seen so
\* far, and the sentinel 9999 while none was seen.
C9_Lowest ==
  latestStreamNum = IF seen = {} THEN INITIAL_LATEST_STREAM_NUM ELSE SetMin(seen)

\* C9 witness: indices 0 and 2 have been seen, 2 last, and latestStreamNum
\* is 0.
C9_Witness ==
  /\ VideoCall
  /\ {0, 2} \subseteq seen
  /\ call.params.streamNum = Some(2)
  /\ latestStreamNum = 0

\* C10 as claimed: after a loadSettings that ran alone against a store
\* holding no override, every per-resolution table equals its compiled-in
\* default table.
C10_ReloadDefaults ==
  (/\ lastDone.any /\ lastDone.alone /\ lastDone.stable
   /\ loads = << >>
   /\ store = NoOverrides(variant))
    => /\ pluginSettings.baseBitrate = DEFAULT_BITRATES(variant)
       /\ pluginSettings.crf_per_res = DEFAULT_CRF_RES(variant)
       /\ pluginSettings.preset = DEFAULT_PRESET(variant)


\* the per-resolution runtime tables with their compiled-in default tables
TablePairs ==
  { <<pluginSettings.baseBitrate, DEFAULT_BITRATES(variant)>>,
    <<pluginSettings.crf_per_res, DEFAULT_CRF_RES(variant)>>,
    <<pluginSettings.preset, DEFAULT_PRESET(variant)>> }

\* C11: in every reachable state, before, during and after any number of
\* sequential or overlapping reloads, the key set of each runtime
\* per-resolution table contains every tier of its default table.
C11_KeysKept ==
  \A t \in TablePairs : DOMAIN t[2] \subseteq DOMAIN t[1]

\* C11 witness: two loadSettings runs overlap, the older one in the middle of
\* its per-resolution loop, after a table entry has been overwritten.
C11_Witness ==
  /\ Len(loads) = 2
  /\ loads[1].pc > 10
  /\ loads[2].pc > 5
  /\ pluginSettings # InitialPluginSettings(variant)
  /\ C11_KeysKept


\* the runtime value and the compiled-in default that belong to a setting
RuntimeValue(ps, k) ==
  CASE k[1] = "quality" -> ps.quality
    [] k[1] = "crf" -> ps.crf
    [] k[1] = "gop" -> ps.gop
    [] k[1] = "base-bitrate" -> ps.baseBitrate[k[2]]
    [] k[1] = "crf-for" -> ps.crf_per_res[k[2]]
    [] k[1] = "preset-for" -> ps.preset[k[2]]

DefaultValue(k) ==
  CASE k[1] = "quality" -> DEFAULT_QUALITY(variant)
    [] k[1] = "crf" -> DEFAULT_CRF
    [] k[1] = "gop" -> DEFAULT_GOP(variant)
    [] k[1] = "base-bitrate" -> DEFAULT_BITRATES(variant)[k[2]]
    [] k[1] = "crf-for" -> DEFAULT_CRF_RES(variant)[k[2]]
    [] k[1] = "preset-for" -> DEFAULT_PRESET(variant)[k[2]]

PerResolution(k) == k[1] \in {"base-bitrate", "crf-for", "preset-for"}

\* the setting loadSettings invocation i is awaiting, and the string it gets
AwaitedKey(i) == Steps(variant)[loads[i].pc]
ReadValue(i) == IF loads[i].fetched THEN loads[i].val ELSE store[AwaitedKey(i)]

\* invocation i resumes with a per-resolution override that is absent or
\* does not parse as a number
ResumesUnparsable(i) ==
  /\ Resume(i)
  /\ PerResolution(AwaitedKey(i))
  /\ ReadValue(i) \in {Undefined, <<"a", "b">>}

C13_AllTiers ==
  /\ \A t \in TablePairs :
       t[2] # EmptyMap =>
         /\ DOMAIN t[1] = Tiers
         /\ DOMAIN t[2] = Tiers
         /\ \A r \in Tiers : t[2][r] # 0
  /\ (VideoCall /\ variant \in {"main", "p001b"})
       => call.params.resolution \in DOMAIN pluginSettings.baseBitrate


\* C14: when the tier of a request has no entry in the runtime base-bitrate
\* table, the base bitrate used is 0, getTargetBitrate returns 0 at every
\* frame rate, and the builder emits bitrate 0 and -bufsize 0.
C14_MissingTierZero ==
  (/\ VideoCall
   /\ variant \in {"main", "p001b"}
   /\ call.params.resolution \notin DOMAIN pluginSettings.baseBitrate)
    => /\ CallBitrate = 0
       /\ FlagValue(call.outputOptions, "-bufsize") = 0
       /\ \A f \in RateFps :
            getTargetBitrate(variant, pluginSettings, call.params.resolution, f) = 0

\* C14 witness: the second module of part_001, whose table has no 240p
\* entry, served a 240p request at 120 fps with bitrate 0.
C14_Witness ==
  /\ VideoCall
  /\ variant = "p001b"
  /\ call.params.resolution = H_240P
  /\ call.params.resolution \notin DOMAIN pluginSettings.baseBitrate
  /\ call.params.fps = 120
  /\ call.params.inputBitrate = None
  /\ CallBitrate = 0


\* every loadSettings so far has run to its end against the present store
Settled ==
  /\ HasSettings(variant)
  /\ registered = "registered"
  /\ loads = << >>

\* C15 as claimed: after a reload, for every numeric setting (quality, crf,
\* gop and each per-resolution override) a stored "0" gives the same runtime
\* value as an unset setting, the compiled-in default, and a stored
\* non-zero integer n gives n.
C15_ZeroAsUnset ==
  Settled =>
    \A k \in ReloadKeys(variant) :
      /\ store[k] \in {Undefined, <<"0">>}
           => RuntimeValue(pluginSettings, k) = DefaultValue(k)
      /\ store[k] = <<"4", "5">> => RuntimeValue(pluginSettings, k) = 45
      /\ store[k] = <<"-", "5">> => RuntimeValue(pluginSettings, k) = 0 - 5


\* the stored string is a positive integer in decimal digits
IsPositiveInteger(str) ==
  /\ str # << >>
  /\ \A i \in 1..Len(str) : str[i] \in Digits
  /\ \E i \in 1..Len(str) : str[i] # "0"

\* C16 as claimed: after a reload each base bitrate of the runtime table is
\* the stored setting when that is a positive integer and the compiled-in
\* default of the tier otherwise (unset, non-numeric, zero or negative), so
\* every base bitrate of the table is a positive integer.
C16_PositiveOrDefault ==
  (Settled /\ variant \in {"main", "p001b"}) =>
    /\ LET k == <<"base-bitrate", H_720P>>
       IN  pluginSettings.baseBitrate[H_720P]
             = IF IsPositiveInteger(store[k]) THEN LeadingDigits(store[k], 0)
               ELSE DEFAULT_BITRATES(variant)[H_720P]
    /\ \A r \in DOMAIN pluginSettings.baseBitrate : pluginSettings.baseBitrate[r] > 0


\* C17: no call of vodBuilder, vodAudioBuilder or liveBuilder (and so no
\* getTargetBitrate) changes any field or table entry of pluginSettings;
\* pluginSettings changes only in a step of a loadSettings invocation.
C17_BuildersReadOnly ==
  [][/\ (call' # call /\ call' # NoCall) => pluginSettings' = pluginSettings
     /\ pluginSettings' # pluginSettings
          => /\ call' = call
             /\ \E i \in 1..Len(loads) : Resume(i)]_vars

\* C17 witness: main.ts served a video builder call in the middle of a
\* reload, with a stored override of 45 in the runtime table.
C17_Witness ==
  /\ VideoCall
  /\ variant = "main"
  /\ loads # << >>
  /\ loads[1].pc > 10
  /\ pluginSettings.baseBitrate[H_720P] = 45


\* C18 as claimed: the GoP length a video builder passes is frameRate times
\* the configured gop setting, in vodBuilder and in liveBuilder alike.  The
\* text "<fps>*<gop>" of vodBuilder counts as the product it denotes.
C18_GopIsFpsTimesGop ==
  (VideoCall /\ HasSettings(variant)) =>
    LET want == call.params.fps * pluginSettings.gop
    IN  IF call.op = "vodBuilder"
        THEN LET g == FlagValue(call.outputOptions, "-g")
             IN  g[2] = "*" /\ g[1] * g[3] = want
        ELSE FlagValue(call.outputOptions, "-g:v") = want


\* C19 as claimed: at every frame rate, below 30 and above 60 included, the
\* value getTargetBitrate returns is floor(b + (f - 30) * b * (K - 1) / 30).
\* With b = SlopeDen * q + r that is b + (f - 30) * q + floor((f - 30) * r /
\* SlopeDen).
C19_FloorOfLine ==
  UnclampedCall =>
    LET b  == ConfiguredBitrate(call.params.resolution)
        q  == b \div SlopeDen
        r  == b % SlopeDen
        df == call.params.fps - 30
    IN  CallBitrate = b + df * q + ((df * r) \div SlopeDen)


ExampleFps == {10, 30, 60}

\* a call of the h264_vaapi variant for tier r at one of the example rates
VaapiExampleCall(r) ==
  /\ UnclampedCall
  /\ variant = "vaapi"
  /\ call.params.resolution = r
  /\ call.params.fps \in ExampleFps

HasCrfPerResolution(v) == \E r \in Tiers : <<"crf-for", r>> \in Keys(v)

\* the step is a vodBuilder call of such a variant
VodCallStep ==
  /\ call = NoCall
  /\ call' # NoCall
  /\ call'.op = "vodBuilder"
  /\ HasCrfPerResolution(variant)

\* the last loadSettings ran alone against the present store, none is running
LoadedAlone ==
  /\ Settled
  /\ lastDone.any /\ lastDone.alone /\ lastDone.stable

\* C22 as claimed: in every variant that registers crf-for-<tier>, the -crf
\* value vodBuilder emits for tier r is the CRF-table entry of r, which after
\* a reload is the stored crf-for-r when that parses to a non-zero integer and
\* the default CRF 28 otherwise; it is never a value of another table.
C22_CrfOfTier ==
  [][VodCallStep =>
       LET r == call'.params.resolution
       IN  /\ FlagValue(call'.outputOptions, "-crf") = pluginSettings.crf_per_res[r]
           /\ LoadedAlone =>
                pluginSettings.crf_per_res[r]
                  = NumOr(parseInt(store[<<"crf-for", r>>]), DEFAULT_CRF)]_vars


\* the decimal text of a natural number, as a template literal prints it
RECURSIVE DecimalText(_)
DecimalText(n) ==
  LET d == CHOOSE c \in Digits : DigitVal(c) = n % 10
  IN  IF n < 10 THEN <<d>> ELSE Append(DecimalText(n \div 10), d)

\* the step is a vodBuilder or liveBuilder call of part_000
PresetCallStep ==
  /\ call = NoCall
  /\ call' # NoCall
  /\ call'.op \in {"vodBuilder", "liveBuilder"}
  /\ variant = "p000"

\* C23 as claimed: in part_000, after a reload the preset-table entry of each
\* tier r is the stored preset-for-r when that parses to a non-zero integer
\* and the default preset of r otherwise, and the -preset value vodBuilder and
\* liveBuilder emit for a request of tier r is that number (vodBuilder's flag
\* value is the number, liveBuilder's is a text).
C23_PresetOfTier ==
  [][/\ (variant = "p000" /\ LoadedAlone) =>
          \A r \in Tiers :
            pluginSettings.preset[r]
              = NumOr(parseInt(store[<<"preset-for", r>>]), DEFAULT_PRESET(variant)[r])
     /\ PresetCallStep =>
          LET n == pluginSettings.preset[call'.params.resolution]
          IN  IF call'.op = "vodBuilder"
              THEN FlagValue(call'.outputOptions, "-preset") = n
              ELSE FlagValue(call'.outputOptions, "-preset") = DecimalText(n)]_vars


\* the step is a builder call: the host gets a new result
BuilderStep == call' # call /\ call' # NoCall

C25_NeverIncreases ==
  [][/\ latestStreamNum' <= latestStreamNum
     /\ latestStreamNum' = SetMin(seen' \cup {INITIAL_LATEST_STREAM_NUM})
     /\ (registered' # registered \/ loads' # loads \/ store' # store)
          => latestStreamNum' = latestStreamNum]_vars

\* C25 witness: streams 0, 1 and 2 have been requested, two settings were
\* saved and reloaded, the plugin has been unregistered, and latestStreamNum
\* is 0.
C25_Witness ==
  /\ registered = "unregistered"
  /\ changes = 2
  /\ lastDone.any
  /\ seen = {0, 1, 2}
  /\ latestStreamNum = 0


\* C26: a video builder request with stream index 0 always gets init flags,
\* and once index 0 has been served a request with a defined index above 0
\* gets none; so, however the jobs interleave, a job whose first stream has
\* index 0 gets init flags for its first request and for no other.
C26_ZeroStartGating ==
  VideoCall =>
    LET sn == call.params.streamNum
    IN  /\ sn = Some(0) => GotInit
        /\ (sn # None /\ sn # Some(0) /\ 0 \in seen) => ~GotInit
        /\ (JobCall /\ 0 \in seen) => (GotInit <=> (callJob.first /\ sn = Some(0)))
        /\ zeroStart => (GotInit <=> callJob.first)

\* C26 witness: while another job was active, a job started with stream 0
\* after stream 0 had been served before, and got init flags.
C26_Witness ==
  /\ JobCall
  /\ overlap
  /\ zeroStart
  /\ callJob.first
  /\ call.params.streamNum = Some(0)
  /\ call.latestBefore = 0
  /\ GotInit


\* parse-or-default of the stored value of a numeric setting
ParseOrDefault(k) == NumOr(parseInt(store[k]), DefaultValue(k))

\* every started loadSettings has completed and register has returned
Quiescent ==
  /\ HasSettings(variant)
  /\ registered = "registered"
  /\ loads = << >>

\* C27 as claimed: once the stored settings have stopped changing and every
\* started loadSettings has completed, each runtime setting and table entry
\* equals parse-or-default of the latest stored value; no stale value read by
\* an earlier reload survives.
C27_Converged ==
  Quiescent =>
    \A k \in Keys(variant) :
      CASE k[1] = "hardware-decode" ->
             pluginSettings.hardwareDecode = (store[k] = <<"t", "r", "u", "e">>)
        [] k[1] = "pix_fmt" ->
             pluginSettings.pix_fmt = StrOr(store[k], DEFAULT_PIX_FMT)
        [] OTHER -> RuntimeValue(pluginSettings, k) = ParseOrDefault(k)


\* the complete configurations around the reload in progress: before it the
\* compiled-in defaults (no loadSettings has completed yet) or what a reload
\* of the store before the last save gave; after it what a reload of the
\* present store gives
ConfigBefore ==
  IF ~lastDone.any THEN {InitialPluginSettings(variant)}
  ELSE {LoadedSettings(variant, [store EXCEPT ![k] = val]) :
          k \in EditedKeys(variant), val \in StoredValues}
ConfigAfter == LoadedSettings(variant, store)

\* C28 as claimed: a builder call that runs while a loadSettings is in
\* progress sees either the complete configuration from before the reload or
\* the complete one after it, never a mix of reloaded and not yet reloaded
\* values.
C28_ReloadAtomic ==
  [][(BuilderStep /\ loads # << >>)
       => pluginSettings \in ConfigBefore \cup {ConfigAfter}]_vars


\* the next higher frame rate of the model's requests (f itself at the top)
NextFps(f) ==
  IF \E g \in RateFps : g > f THEN SetMin({g \in RateFps : g > f}) ELSE f

\* C29: for a non-negative base bitrate and every frame rate f >= 0,
\* getTargetBitrate is non-negative and non-decreasing in f (from each frame
\* rate to the next higher one), with K = 1.6 and with K = 1.4; so with a
\* non-negative inputBitrate, or none, the emitted bitrate and -bufsize are
\* not negative.
C29_NonNegativeMonotone ==
  (VideoCall /\ HasBitrate(variant)
     /\ BaseBitrateOf(variant, pluginSettings, call.params.resolution) >= 0) =>
    LET r  == call.params.resolution
        f  == call.params.fps
        T  == getTargetBitrate(variant, pluginSettings, r, f)
        ib == call.params.inputBitrate
    IN  /\ T >= 0
        /\ T <= getTargetBitrate(variant, pluginSettings, r, NextFps(f))
        /\ (ib = None \/ Val(ib) >= 0)
             => /\ CallBitrate >= 0
                /\ FlagValue(call.outputOptions, "-bufsize") >= 0

\* C29 witness: main.ts served a request at 0 fps for a tier whose stored
\* base bitrate is 1 and emitted bitrate 0 (1 - 0.6 floored).
C29_Witness ==
  /\ VideoCall
  /\ variant = "main"
  /\ call.params.resolution = H_720P
  /\ call.params.fps = 0
  /\ call.params.inputBitrate = None
  /\ pluginSettings.baseBitrate[H_720P] = 1
  /\ CallBitrate = 0

====
